---- MODULE Spec2Model ----
(***************************************************************************)
(* A model of the chat front end of the customer-service agent:            *)
(*   - the Next.js route handlers that answer POST /chat                   *)
(*     (ui/app/api/chat/route.ts, the credential-checking variant, and the *)
(*     echo stub of ui/api/chat/route.ts),                                 *)
(*   - the keyword router route_to_agent of ui/api/chat/route.ts,          *)
(*   - the React page (ui/app/page.tsx) that boots a conversation and      *)
(*     sends the user's messages.                                          *)
(* Text is modelled as a sequence of one-character strings so that         *)
(* toLowerCase, includes and length are computed, not assumed.             *)
(***************************************************************************)
EXTENDS Integers, Sequences, FiniteSets, TLC

(***************************************************************************)
(* Bounds of the model.                                                    *)
(***************************************************************************)
\* longest routed message, in words
MaxWords == 2

(***************************************************************************)
(* Text.                                                                   *)
(***************************************************************************)
\* String.prototype.toLowerCase on one character
LowerChar(c) ==
  CASE c = "A" -> "a" [] c = "B" -> "b" [] c = "C" -> "c" [] c = "D" -> "d"
    [] c = "E" -> "e" [] c = "F" -> "f" [] c = "G" -> "g" [] c = "H" -> "h"
    [] c = "I" -> "i" [] c = "J" -> "j" [] c = "K" -> "k" [] c = "L" -> "l"
    [] c = "M" -> "m" [] c = "N" -> "n" [] c = "O" -> "o" [] c = "P" -> "p"
    [] c = "Q" -> "q" [] c = "R" -> "r" [] c = "S" -> "s" [] c = "T" -> "t"
    [] c = "U" -> "u" [] c = "V" -> "v" [] c = "W" -> "w" [] c = "X" -> "x"
    [] c = "Y" -> "y" [] c = "Z" -> "z" [] OTHER -> c

\* String.prototype.toLowerCase
toLowerCase(s) ==
  [i \in 1..Len(s) |-> LowerChar(s[i])]

\* String.prototype.includes: key occurs in s as a contiguous substring
includes(s, key) ==
  \E i \in 0..(Len(s) - Len(key)) : SubSeq(s, i + 1, i + Len(key)) = key

\* the keywords the router looks for
K_seat == <<"s","e","a","t">>
K_status == <<"s","t","a","t","u","s">>
K_flight == <<"f","l","i","g","h","t">>
K_cancel == <<"c","a","n","c","e","l">>
K_faq == <<"f","a","q">>
K_question == <<"q","u","e","s","t","i","o","n">>
K_transfer == <<"t","r","a","n","s","f","e","r">>
K_triage == <<"t","r","i","a","g","e">>

\* words a user message is made of: the router's keywords, a capitalised
\* word that contains a keyword, and a word that matches nothing
Vocabulary ==
  { K_seat, K_status, K_flight, K_cancel, K_question, K_transfer, K_triage,
    <<"C","A","N","C","E","L","S">>,
    <<"h","e","l","l","o">> }

RECURSIVE JoinWords(_)
\* the words of ws separated by single spaces
JoinWords(ws) ==
  IF Len(ws) = 0 THEN <<>>
  ELSE IF Len(ws) = 1 THEN ws[1]
  ELSE ws[1] \o <<" ">> \o JoinWords(Tail(ws))

\* the user messages the router is driven with
RouteMessages ==
  { JoinWords(ws) : ws \in UNION { [1..n -> Vocabulary] : n \in 0..MaxWords } }

(***************************************************************************)
(* The agent registry of ui/api/chat/route.ts.                             *)
(***************************************************************************)
TriageAgent == "Triage Agent"
FAQAgent == "FAQ Agent"
SeatBookingAgent == "Seat Booking Agent"
FlightStatusAgent == "Flight Status Agent"
CancellationAgent == "Cancellation Agent"

AGENT_LIST ==
  << TriageAgent, FAQAgent, SeatBookingAgent, FlightStatusAgent,
     CancellationAgent >>

AgentNames == { AGENT_LIST[i] : i \in 1..Len(AGENT_LIST) }

\* the handoff targets each agent's prompt declares (AGENT_PROMPTS): triage
\* delegates to the four specialists, a specialist transfers to triage
DeclaredHandoffs(agent) ==
  IF agent = TriageAgent
  THEN { FAQAgent, SeatBookingAgent, FlightStatusAgent, CancellationAgent }
  ELSE IF agent \in AgentNames THEN { TriageAgent }
  ELSE {}

\* route_to_agent with a specialist that routes on topic keywords itself
route_to_agent_SpecialistRoutes(userMessage, currentAgent) ==
  LET message == toLowerCase(userMessage) IN
  IF includes(message, K_seat) THEN SeatBookingAgent
  ELSE IF includes(message, K_status) \/ includes(message, K_flight)
       THEN FlightStatusAgent
  ELSE IF includes(message, K_cancel) THEN CancellationAgent
  ELSE IF currentAgent = TriageAgent THEN FAQAgent
  ELSE IF includes(message, K_transfer) \/ includes(message, K_triage)
       THEN TriageAgent
  ELSE currentAgent

\* route_to_agent(userMessage, currentAgent)
route_to_agent(userMessage, currentAgent) ==
  IF currentAgent = TriageAgent
  THEN LET message == toLowerCase(userMessage) IN
       IF includes(message, K_seat) THEN SeatBookingAgent
       ELSE IF includes(message, K_status) \/ includes(message, K_flight)
            THEN FlightStatusAgent
       ELSE IF includes(message, K_cancel) THEN CancellationAgent
       ELSE IF includes(message, K_faq) \/ includes(message, K_question)
            THEN FAQAgent
       ELSE FAQAgent
  ELSE IF includes(toLowerCase(userMessage), K_transfer)
          \/ includes(toLowerCase(userMessage), K_triage)
       THEN TriageAgent
  ELSE currentAgent


(***************************************************************************)
(* JSON values as the handlers see them.                                   *)
(***************************************************************************)
Undefined == [t |-> "undefined", s |-> <<>>, n |-> 0]

Str(chars) == [t |-> "string", s |-> chars, n |-> 0]

Num(k) == [t |-> "number", s |-> <<>>, n |-> k]

\* JavaScript truthiness of a JSON value (the operand of !x and x || y)
Truthy(v) ==
  \/ v.t = "string" /\ Len(v.s) > 0
  \/ v.t = "number" /\ v.n # 0

DigitChar(d) ==
  CASE d = 0 -> "0" [] d = 1 -> "1" [] d = 2 -> "2" [] d = 3 -> "3"
    [] d = 4 -> "4" [] d = 5 -> "5" [] d = 6 -> "6" [] d = 7 -> "7"
    [] d = 8 -> "8" [] d = 9 -> "9"

RECURSIVE Digits(_)
\* the decimal text of a natural number, as string concatenation writes it
Digits(k) ==
  IF k < 10 THEN << DigitChar(k) >>
  ELSE Append(Digits(k \div 10), DigitChar(k % 10))

\* a string of len characters
Pad(len) ==
  [i \in 1..len |-> "x"]

(***************************************************************************)
(* ui/app/api/chat/route.ts: the /api/chat handler.                        *)
(***************************************************************************)
\* message.length > 1000
MAX_MESSAGE_LENGTH == 1000
\* AbortSignal.timeout(10000)
FETCH_TIMEOUT_MS == 10000

K_premier_league ==
  <<"p","r","e","m","i","e","r"," ","l","e","a","g","u","e">>
K_championship == <<"c","h","a","m","p","i","o","n","s","h","i","p">>
K_boxing == <<"b","o","x","i","n","g">>

\* the non-default entries of FALLBACK_RESPONSES, in declaration order
FALLBACK_RESPONSES ==
  << [key |-> K_premier_league,
      response |-> "I can help with Premier League information! However, the full backend system is not currently available. Please ensure your Python backend is running on port 8000."],
     [key |-> K_championship,
      response |-> "I can help with Championship football! However, the full backend system is not currently available. Please ensure your Python backend is running on port 8000."],
     [key |-> K_boxing,
      response |-> "I can help with boxing information! However, the full backend system is not currently available. Please ensure your Python backend is running on port 8000."],
     [key |-> K_transfer,
      response |-> "I can help with transfer news! However, the full backend system is not currently available. Please ensure your Python backend is running on port 8000."] >>

\* FALLBACK_RESPONSES.default
FALLBACK_DEFAULT ==
  "Hello! I'm your UK Sports assistant. I can help with Premier League, Championship, Boxing, and Sports News. However, the full backend system is not currently available. Please ensure your Python backend is running on port 8000."

RECURSIVE FallbackFrom(_, _)
\* the for-of loop of getFallbackResponse, from entry i on
FallbackFrom(messageLower, i) ==
  IF i > Len(FALLBACK_RESPONSES) THEN FALLBACK_DEFAULT
  ELSE IF includes(messageLower, FALLBACK_RESPONSES[i].key)
       THEN FALLBACK_RESPONSES[i].response
  ELSE FallbackFrom(messageLower, i + 1)

\* getFallbackResponse that looks for the keys in the message as typed
getFallbackResponse_CaseSensitive(message) ==
  FallbackFrom(message, 1)

\* getFallbackResponse(message)
getFallbackResponse(message) ==
  FallbackFrom(toLowerCase(message), 1)

\* the agents array of the fallback response
FALLBACK_AGENTS ==
  << [name |-> "Triage Agent", description |-> "Routes your questions to the right specialist", handoffs |-> <<>>, tools |-> <<>>, input_guardrails |-> <<>>],
     [name |-> "Premier League Agent", description |-> "Premier League football expert", handoffs |-> <<>>, tools |-> <<>>, input_guardrails |-> <<>>],
     [name |-> "Championship Agent", description |-> "Championship football expert", handoffs |-> <<>>, tools |-> <<>>, input_guardrails |-> <<>>],
     [name |-> "Boxing Agent", description |-> "Boxing expert", handoffs |-> <<>>, tools |-> <<>>, input_guardrails |-> <<>>],
     [name |-> "Sports News Agent", description |-> "Latest sports news and updates", handoffs |-> <<>>, tools |-> <<>>, input_guardrails |-> <<>>] >>

\* NextResponse.json({ error }, { status })
ErrorResponse(status, text) ==
  [status |-> status, body |-> [error |-> text]]

\* NextResponse.json(data): status 200
JsonResponse(data) ==
  [status |-> 200, body |-> data]

\* the catch block of every POST handler
InternalServerError ==
  ErrorResponse(500, "Internal server error")

\* the input validation of the /api/chat handler without the length check
ChatValidate_NoLengthCheck(message) ==
  IF ~Truthy(message) \/ message.t # "string"
  THEN "Message is required and must be a string"
  ELSE "ok"

\* the input validation of the /api/chat handler: the error text, or "ok"
ChatValidate(message) ==
  IF ~Truthy(message) \/ message.t # "string"
  THEN "Message is required and must be a string"
  ELSE IF Len(message.s) > MAX_MESSAGE_LENGTH
  THEN "Message too long (max 1000 characters)"
  ELSE "ok"

\* process.env.NODE_ENV === 'development' ? ... : ...
ChatBackendUrl(env) ==
  IF env = "development" THEN "http://127.0.0.1:8000/chat"
  ELSE "/api/python-chat"

\* the fallback response of the /api/chat handler, at time now
ChatFallback(message, conversation_id, now) ==
  JsonResponse(
    [conversation_id |->
       IF Truthy(conversation_id) THEN conversation_id
       ELSE Str(<<"f","a","l","l","b","a","c","k","-">> \o Digits(now)),
     current_agent |-> "triage",
     context |-> [user_name |-> "null", favorite_team |-> "null",
                  favorite_sport |-> "null", last_query_type |-> "null",
                  user_id |-> "null"],
     events |-> << [id |-> <<"e","v","e","n","t","-">> \o Digits(now),
                    type |-> "agent_selected", agent |-> "triage",
                    content |-> "Fallback mode activated",
                    timestamp |-> now] >>,
     agents |-> FALLBACK_AGENTS,
     guardrails |-> <<>>,
     messages |-> << [content |-> getFallbackResponse(message.s),
                      agent |-> "triage", timestamp |-> now] >>])

\* the /api/chat handler that answers a failed backend call with an error
ChatAfterFetch_Surfaces(req, result, data, now) ==
  IF result = "ok" THEN JsonResponse(data)
  ELSE IF result = "not_ok" THEN ErrorResponse(502, "Bad gateway")
  ELSE ChatFallback(req.body.message, req.body.conversation_id, now)

\* the /api/chat handler from the settling of its fetch on: result is "ok"
\* (pythonResponse.ok, body parsed into data), "not_ok", "throws" (fetch
\* rejected), "bad_json" (pythonResponse.json() rejected) or "timeout"
ChatAfterFetch(req, result, data, now) ==
  IF result = "ok" THEN JsonResponse(data)
  ELSE ChatFallback(req.body.message, req.body.conversation_id, now)

(***************************************************************************)
(* The credential-checking variant of the handler (unnamed/part_002).      *)
(***************************************************************************)
\* the agents array of the variant's responses
SIMPLE_AGENTS ==
  << [id |-> "triage", name |-> "Triage Agent", description |-> "Routes your questions to the right specialist"],
     [id |-> "premier_league", name |-> "Premier League", description |-> "Premier League football expert"],
     [id |-> "championship", name |-> "Championship", description |-> "Championship football expert"],
     [id |-> "boxing", name |-> "Boxing", description |-> "Boxing expert"],
     [id |-> "sports_news", name |-> "Sports News", description |-> "Latest sports news and updates"] >>

\* the response both branches of the variant build; fresh is the id used
\* when the request carries none, note the sentence after the quoted message
SimpleBody(message, conversation_id, fresh, note, now) ==
  [conversation_id |->
     IF Truthy(conversation_id) THEN conversation_id ELSE Str(fresh),
   current_agent |-> "triage",
   context |-> <<>>,
   events |-> << [type |-> "agent_selected", agent |-> "triage",
                  timestamp |-> now] >>,
   agents |-> SIMPLE_AGENTS,
   guardrails |-> <<>>,
   messages |-> << [content |-> [template |-> "I received your message: ",
                                 arg |-> message, note |-> note],
                    agent |-> "triage", timestamp |-> now] >>]

\* the response when GOOGLE_API_KEY is not set
SimpleNoKey(message, conversation_id, now) ==
  JsonResponse(SimpleBody(message, conversation_id,
    <<"m","o","c","k","-","c","o","n","v","e","r","s","a","t","i","o","n","-","i","d">>,
    "Please set up your GOOGLE_API_KEY environment variable in Vercel to get real AI responses.",
    now))

\* the response when the backend call did not succeed
SimpleFallback(message, conversation_id, now) ==
  JsonResponse(SimpleBody(message, conversation_id,
    <<"c","o","n","v","-">> \o Digits(now),
    "The Python backend is not yet available. Please check your deployment configuration.",
    now))

\* the variant from the settling of its fetch on
SimpleAfterFetch(req, result, data, now) ==
  IF result = "ok" THEN JsonResponse(data)
  ELSE SimpleFallback(req.body.message, req.body.conversation_id, now)

(***************************************************************************)
(* ui/api/chat/route.ts: the echo stub and its conversation store.         *)
(***************************************************************************)
\* const conversations = new Map(): nothing ever writes to it
conversations == {}

\* the echo response of the stub
EchoResponse(message, conversation_id) ==
  JsonResponse(
    [conversation_id |->
       IF Truthy(conversation_id) THEN conversation_id
       ELSE Str(<<"d","e","m","o">>),
     current_agent |-> "Triage Agent",
     messages |-> << [content |-> [template |-> "Echo: ", arg |-> message],
                      agent |-> "Triage Agent"] >>,
     events |-> <<>>,
     context |-> <<>>,
     agents |-> <<>>,
     guardrails |-> <<>>])

(***************************************************************************)
(* The Python backend behind the handlers, as the interface section of the *)
(* specification describes it: it owns the conversations.                  *)
(***************************************************************************)
\* the id of the next conversation the backend creates
BackendFreshId(store) ==
  <<"c","-">> \o Digits(Cardinality(store) + 1)

\* whether the backend knows the conversation a request names
BackendKnows(body, store) ==
  ~Truthy(body.conversation_id) \/ body.conversation_id.s \in store

\* the chat response of the backend to a request it accepts
BackendData(body, store) ==
  LET boot == body.message.t = "string" /\ Len(body.message.s) = 0 IN
  [conversation_id |->
     IF Truthy(body.conversation_id) THEN body.conversation_id
     ELSE Str(BackendFreshId(store)),
   current_agent |-> "Triage Agent",
   context |-> [favorite_team |-> "null"],
   events |-> IF boot THEN <<>>
              ELSE << [type |-> "agent_selected", agent |-> "Triage Agent"] >>,
   agents |-> << [name |-> "Triage Agent"] >>,
   guardrails |-> <<>>,
   messages |-> << [content |-> IF boot THEN "welcome" ELSE "reply",
                    agent |-> "Triage Agent"] >>]

\* the conversations of the backend after it accepted a request
BackendStoreAfter(body, store) ==
  IF Truthy(body.conversation_id) THEN store
  ELSE store \cup { BackendFreshId(store) }

(***************************************************************************)
(* State.                                                                  *)
(***************************************************************************)
\* one-millisecond steps of the clock (besides one timeout-long step)
MaxTicks == 1
\* conversations the backend creates
MaxConversations == 2

VARIABLES
  nodeEnv,       \* process.env.NODE_ENV
  apiKey,        \* whether process.env.GOOGLE_API_KEY is set
  now,           \* Date.now()
  reqs,          \* the request each caller has in flight, if any
  backendStore,  \* ids of the conversations the backend holds
  page,          \* the state hooks of the page
  turns,         \* the calls whose response the page has applied, in order
  routeAgent,    \* the conversation's current agent, as the router tracks it
  routeCall,     \* the arguments of the last route_to_agent call
  agentCall,     \* the agent_respond call in progress, if any
  grounding      \* what the grounding engine decided about its draft reply

serverVars == << nodeEnv, apiKey, now, reqs, backendStore >>
pageVars == << page, turns >>
routeVars == << routeAgent, routeCall >>
agentVars == << agentCall, grounding >>
vars == << nodeEnv, apiKey, now, reqs, backendStore, page, turns, routeAgent,
           routeCall, agentCall, grounding >>

NoFetch ==
  [url |-> "none", signal |-> FALSE, startedAt |-> 0, result |-> "none"]

NoResponse == [status |-> 0, body |-> [none |-> TRUE]]

NoBody == [kind |-> "none", message |-> Undefined, conversation_id |-> Undefined]

FreeSlot ==
  [origin |-> "none", handler |-> "none", body |-> NoBody, pc |-> "free",
   fetch |-> NoFetch, response |-> NoResponse, captured |-> Undefined]

\* a request as it arrives at a handler
Request(origin, handler, body, captured) ==
  [origin |-> origin, handler |-> handler, body |-> body, pc |-> "received",
   fetch |-> NoFetch, response |-> NoResponse, captured |-> captured]

ObjectBody(message, conversation_id) ==
  [kind |-> "object", message |-> message, conversation_id |-> conversation_id]

\* the callers: each has at most one request in flight
Slots == DOMAIN reqs

\* the clients that post to the handlers directly. The handlers share
\* nothing but the clock and the backend, so one client drives them.
Clients == { "client" }

Respond(i, response) ==
  reqs' = [reqs EXCEPT ![i].pc = "responded", ![i].response = response]

K_hello == <<"h","e","l","l","o">>
K_unknown_id == <<"n","o","-","s","u","c","h","-","i","d">>

\* the message fields clients post: absent, not a string, empty, ordinary,
\* naming a fallback topic, of the longest accepted length, one longer
PostedMessages ==
  { Undefined, Num(5), Str(<<>>), Str(K_hello),
    Str(<<"B","o","x","i","n","g">>),
    Str(Pad(MAX_MESSAGE_LENGTH)), Str(Pad(MAX_MESSAGE_LENGTH + 1)) }

\* the conversation_id fields clients post: absent, an id no one issued, an
\* id the backend issued
PostedIds ==
  { Undefined, Str(K_unknown_id) } \cup { Str(id) : id \in backendStore }

\* the request bodies clients post: unparsable, null, or an object
PostedBodies ==
  { [NoBody EXCEPT !.kind = "invalid"], [NoBody EXCEPT !.kind = "null"] }
  \cup { ObjectBody(m, c) : m \in PostedMessages, c \in PostedIds }

Handlers == { "chat", "simple", "echo" }

ServerInit ==
  /\ nodeEnv \in { "development", "production" }
  /\ apiKey \in BOOLEAN
  /\ now = 1
  /\ reqs = [i \in Clients |-> FreeSlot]
  /\ backendStore = {}

(***************************************************************************)
(* The environment: the clock and the clients of the handlers.             *)
(***************************************************************************)
\* time passes: a millisecond, or the length of the fetch timeout
Tick(d) ==
  /\ d = 1 => (now - 1) % FETCH_TIMEOUT_MS < MaxTicks
  /\ d = FETCH_TIMEOUT_MS => now <= FETCH_TIMEOUT_MS
  /\ now' = now + d
  /\ UNCHANGED << nodeEnv, apiKey, reqs, backendStore, pageVars, routeVars, agentVars >>

\* client i posts body to a handler
Post(i, handler, body) ==
  /\ reqs[i].pc = "free"
  /\ reqs' = [reqs EXCEPT ![i] = Request("direct", handler, body, Undefined)]
  /\ UNCHANGED << nodeEnv, apiKey, now, backendStore, pageVars, routeVars, agentVars >>

\* the client takes the response of its request
Deliver(i) ==
  /\ reqs[i].pc = "responded"
  /\ reqs[i].origin = "direct"
  /\ reqs' = [reqs EXCEPT ![i] = FreeSlot]
  /\ UNCHANGED << nodeEnv, apiKey, now, backendStore, pageVars, routeVars, agentVars >>

(***************************************************************************)
(* The handlers.                                                           *)
(***************************************************************************)
\* POST of ui/app/api/chat/route.ts up to its await of fetch
ChatReceive(i) ==
  /\ reqs[i].pc = "received"
  /\ reqs[i].handler = "chat"
  /\ LET body == reqs[i].body IN
     IF body.kind # "object"
     THEN Respond(i, InternalServerError)
     ELSE IF ChatValidate(body.message) # "ok"
     THEN Respond(i, ErrorResponse(400, ChatValidate(body.message)))
     ELSE reqs' = [reqs EXCEPT ![i].pc = "fetching",
                               ![i].fetch = [url |-> ChatBackendUrl(nodeEnv),
                                             signal |-> TRUE,
                                             startedAt |-> now,
                                             result |-> "pending"]]
  /\ UNCHANGED << nodeEnv, apiKey, now, backendStore, pageVars, routeVars, agentVars >>

\* the backend call of request i settles with result
FetchSettles(i, result) ==
  /\ reqs[i].pc = "fetching"
  /\ reqs[i].handler \in { "chat", "simple" }
  /\ now < reqs[i].fetch.startedAt + FETCH_TIMEOUT_MS \/ ~reqs[i].fetch.signal
  /\ result = "ok" =>
       /\ BackendKnows(reqs[i].body, backendStore)
       /\ Cardinality(BackendStoreAfter(reqs[i].body, backendStore))
            <= MaxConversations
  /\ LET req == [reqs[i] EXCEPT !.fetch.result = result]
         data == BackendData(req.body, backendStore)
         response == IF req.handler = "chat"
                     THEN ChatAfterFetch(req, result, data, now)
                     ELSE SimpleAfterFetch(req, result, data, now)
     IN reqs' = [reqs EXCEPT ![i] = [req EXCEPT !.pc = "responded",
                                                !.response = response]]
  /\ backendStore' = IF result = "ok"
                     THEN BackendStoreAfter(reqs[i].body, backendStore)
                     ELSE backendStore
  /\ UNCHANGED << nodeEnv, apiKey, now, pageVars, routeVars, agentVars >>

\* the AbortSignal of request i's fetch fires: the fetch rejects
FetchTimesOut(i) ==
  /\ reqs[i].pc = "fetching"
  /\ reqs[i].fetch.signal
  /\ now >= reqs[i].fetch.startedAt + FETCH_TIMEOUT_MS
  /\ LET req == [reqs[i] EXCEPT !.fetch.result = "timeout"]
         response == ChatAfterFetch(req, "timeout", NoResponse.body, now)
     IN reqs' = [reqs EXCEPT ![i] = [req EXCEPT !.pc = "responded",
                                                !.response = response]]
  /\ UNCHANGED << nodeEnv, apiKey, now, backendStore, pageVars, routeVars, agentVars >>

\* POST of the credential-checking variant up to its await of fetch
SimpleReceive(i) ==
  /\ reqs[i].pc = "received"
  /\ reqs[i].handler = "simple"
  /\ LET body == reqs[i].body IN
     IF body.kind # "object"
     THEN Respond(i, InternalServerError)
     ELSE IF ~apiKey
     THEN Respond(i, SimpleNoKey(body.message, body.conversation_id, now))
     ELSE reqs' = [reqs EXCEPT ![i].pc = "fetching",
                               ![i].fetch = [url |-> "/api/python-chat",
                                             signal |-> FALSE,
                                             startedAt |-> now,
                                             result |-> "pending"]]
  /\ UNCHANGED << nodeEnv, apiKey, now, backendStore, pageVars, routeVars, agentVars >>

\* POST of ui/api/chat/route.ts
EchoHandle(i) ==
  /\ reqs[i].pc = "received"
  /\ reqs[i].handler = "echo"
  /\ LET body == reqs[i].body IN
     IF body.kind # "object"
     THEN Respond(i, InternalServerError)
     ELSE Respond(i, EchoResponse(body.message, body.conversation_id))
  /\ UNCHANGED << nodeEnv, apiKey, now, backendStore, pageVars, routeVars, agentVars >>

\* the backend itself answers request i (the development rewrite of /chat)
BackendAnswers(i, result) ==
  /\ reqs[i].pc = "received"
  /\ reqs[i].handler = "backend"
  /\ result = "ok" =>
       /\ BackendKnows(reqs[i].body, backendStore)
       /\ Cardinality(BackendStoreAfter(reqs[i].body, backendStore))
            <= MaxConversations
  /\ Respond(i, IF result = "ok"
                THEN JsonResponse(BackendData(reqs[i].body, backendStore))
                ELSE IF result = "not_ok"
                THEN InternalServerError
                ELSE [status |-> 0, body |-> [network_error |-> TRUE]])
  /\ backendStore' = IF result = "ok"
                     THEN BackendStoreAfter(reqs[i].body, backendStore)
                     ELSE backendStore
  /\ UNCHANGED << nodeEnv, apiKey, now, pageVars, routeVars, agentVars >>

FetchResults == { "ok", "not_ok", "throws", "bad_json" }

(***************************************************************************)
(* ui/app/page.tsx: the page.                                              *)
(***************************************************************************)
\* messages the user sends from the page
MaxSends == 2

Null == [t |-> "null", s |-> <<>>, n |-> 0]

\* the texts the user types
PageContents == { K_hello, <<"B","o","x","i","n","g">> }

\* send k uses slot k, the boot call the slot after the last send's
BootCall == MaxSends + 1

PageCalls == 1..(MaxSends + 1)

\* the state hooks after the first render; mounted and sent are the page's
\* position: whether the boot effect has run, and how many sends were made.
\* The ids and Date timestamps of messages are left out.
PageInitState ==
  [messages |-> <<>>, events |-> <<>>, agents |-> <<>>, currentAgent |-> "",
   guardrails |-> <<>>, context |-> <<>>, conversationId |-> Null,
   isLoading |-> FALSE, apiError |-> "null", mounted |-> FALSE, sent |-> 0]

\* next.config rewrites: where a POST to /chat goes
ChatEndpoint(env) ==
  IF env = "development" THEN "backend" ELSE "chat"

\* conversationId ?? ""
OrEmpty(v) ==
  IF v.t \in { "null", "undefined" } THEN Str(<<>>) ELSE v

\* data.name || fallback, for the fields of a response
Field(data, name, fallback) ==
  IF name \in DOMAIN data THEN data[name] ELSE fallback

\* ({ ...e, timestamp: e.timestamp ?? Date.now() })
Stamp(e, t) ==
  IF "timestamp" \in DOMAIN e THEN e ELSE e @@ [timestamp |-> t]

StampAll(es, t) ==
  [k \in 1..Len(es) |-> Stamp(es[k], t)]

\* data.messages.map(m => ({ content, role: "assistant", agent }))
AssistantMessages(ms) ==
  [k \in 1..Len(ms) |->
     [content |-> ms[k].content, role |-> "assistant", agent |-> ms[k].agent]]

UserMessage(content) ==
  [content |-> content, role |-> "user", agent |-> "none"]

\* callChatAPI (lib/api, not part of the sources) as the page uses it: the
\* parsed body of a successful response; otherwise null or an exception
CallChatAPIResults(response) ==
  IF response.status = 200
  THEN { [kind |-> "data", data |-> response.body] }
  ELSE { [kind |-> "null", data |-> NoResponse.body],
         [kind |-> "throws", data |-> NoResponse.body] }

\* the boot effect after callChatAPI returned data
ApplyBoot(p, data, t) ==
  [p EXCEPT
     !.conversationId = Field(data, "conversation_id", Undefined),
     !.currentAgent = Field(data, "current_agent", ""),
     !.context = Field(data, "context", <<>>),
     !.events = StampAll(Field(data, "events", <<>>), t),
     !.agents = Field(data, "agents", <<>>),
     !.guardrails = Field(data, "guardrails", <<>>),
     !.messages = IF "messages" \in DOMAIN data
                  THEN AssistantMessages(data.messages) ELSE @]

\* handleSendMessage up to its await
StartSend(p, content) ==
  [p EXCEPT !.messages = Append(@, UserMessage(content)),
            !.isLoading = TRUE,
            !.apiError = "null"]

\* handleSendMessage after callChatAPI returned data; captured is the
\* conversationId of the render the handler was created in
ApplySend(p, captured, data, t) ==
  [p EXCEPT
     !.conversationId = IF ~Truthy(captured)
                        THEN Field(data, "conversation_id", Undefined) ELSE @,
     !.currentAgent = Field(data, "current_agent", ""),
     !.context = Field(data, "context", <<>>),
     !.events = IF "events" \in DOMAIN data
                THEN @ \o StampAll(data.events, t) ELSE @,
     !.agents = IF "agents" \in DOMAIN data THEN data.agents ELSE @,
     !.guardrails = IF "guardrails" \in DOMAIN data THEN data.guardrails ELSE @,
     !.messages = IF "messages" \in DOMAIN data
                  THEN @ \o AssistantMessages(data.messages) ELSE @,
     !.isLoading = FALSE]

PageInit ==
  /\ page = PageInitState
  /\ turns = <<>>

\* the boot effect runs after the first render: callChatAPI("", ...)
PageMount ==
  /\ ~page.mounted
  /\ page' = [page EXCEPT !.mounted = TRUE]
  /\ reqs' = [reqs EXCEPT ![BootCall] =
       Request("boot", ChatEndpoint(nodeEnv),
               ObjectBody(Str(<<>>), OrEmpty(page.conversationId)),
               page.conversationId)]
  /\ UNCHANGED << nodeEnv, apiKey, now, backendStore, turns, routeVars, agentVars >>

\* the user sends content: handleSendMessage up to its await
HandleSendMessage(content) ==
  /\ page.mounted
  /\ page.sent < MaxSends
  /\ page' = [StartSend(page, content) EXCEPT !.sent = @ + 1]
  /\ reqs' = [reqs EXCEPT ![page.sent + 1] =
       Request("send", ChatEndpoint(nodeEnv),
               ObjectBody(Str(content), OrEmpty(page.conversationId)),
               page.conversationId)]
  /\ UNCHANGED << nodeEnv, apiKey, now, backendStore, turns, routeVars, agentVars >>

\* the boot effect resumes with the result of callChatAPI
BootResumes(result) ==
  /\ reqs[BootCall].pc = "responded"
  /\ result \in CallChatAPIResults(reqs[BootCall].response)
  /\ page' =
       IF result.kind = "data" THEN ApplyBoot(page, result.data, now)
       ELSE IF result.kind = "null"
       THEN [page EXCEPT !.apiError = "Unable to connect to the backend API. Please check your environment variables."]
       ELSE [page EXCEPT !.apiError = "Failed to initialize the chat. Please try refreshing the page."]
  /\ turns' = IF result.kind = "data"
              THEN Append(turns, [kind |-> "boot", content |-> <<>>,
                                  conversation_id |->
                                    reqs[BootCall].body.conversation_id,
                                  data |-> result.data, at |-> now])
              ELSE turns
  /\ reqs' = [reqs EXCEPT ![BootCall] = FreeSlot]
  /\ UNCHANGED << nodeEnv, apiKey, now, backendStore, routeVars, agentVars >>

\* handleSendMessage of send i resumes with the result of callChatAPI
SendResumes(i, result) ==
  /\ i # BootCall
  /\ reqs[i].pc = "responded"
  /\ result \in CallChatAPIResults(reqs[i].response)
  /\ page' =
       IF result.kind = "data"
       THEN ApplySend(page, reqs[i].captured, result.data, now)
       ELSE IF result.kind = "null"
       THEN [page EXCEPT !.apiError = "Unable to connect to the backend API. Please check your environment variables.",
                         !.isLoading = FALSE]
       ELSE [page EXCEPT !.apiError = "Failed to send message. Please try again.",
                         !.isLoading = FALSE]
  /\ turns' = IF result.kind = "data"
              THEN Append(turns, [kind |-> "send",
                                  content |-> reqs[i].body.message.s,
                                  conversation_id |->
                                    reqs[i].body.conversation_id,
                                  data |-> result.data, at |-> now])
              ELSE turns
  /\ reqs' = [reqs EXCEPT ![i] = FreeSlot]
  /\ UNCHANGED << nodeEnv, apiKey, now, backendStore, routeVars, agentVars >>

PageResults ==
  { [kind |-> k, data |-> NoResponse.body] : k \in { "null", "throws" } }
  \cup { [kind |-> "data", data |-> reqs[i].response.body] : i \in Slots }

(***************************************************************************)
(* The router, driven on its own.                                          *)
(***************************************************************************)
NoCall == [userMessage |-> <<>>, currentAgent |-> "none"]

RouteInit ==
  /\ routeAgent = TriageAgent
  /\ routeCall = NoCall

\* one routing step: currentAgent = route_to_agent(message, currentAgent)
Route(m) ==
  /\ routeCall' = [userMessage |-> m, currentAgent |-> routeAgent]
  /\ routeAgent' = route_to_agent(m, routeAgent)
  /\ UNCHANGED << serverVars, pageVars, agentVars >>

(***************************************************************************)
(* ui/api/chat/route.ts: the agents' response step.                        *)
(***************************************************************************)
\* longest message an agent is asked, in words
MaxAgentWords == 2

K_bag == <<"b", "a", "g" >>
K_baggage == <<"b", "a", "g", "g", "a", "g", "e" >>
K_luggage == <<"l", "u", "g", "g", "a", "g", "e" >>
K_fee == <<"f", "e", "e" >>
K_cost == <<"c", "o", "s", "t" >>
K_charge == <<"c", "h", "a", "r", "g", "e" >>
K_plane == <<"p", "l", "a", "n", "e" >>
K_wifi == <<"w", "i", "f", "i" >>
K_internet == <<"i", "n", "t", "e", "r", "n", "e", "t" >>

\* the answers of faq_lookup_tool
FAQ_BAG_FEE ==
  <<"O", "v", "e", "r", "w", "e", "i", "g", "h", "t", " ", "b", "a", "g",
    " ", "f", "e", "e", " ", "i", "s", " ", "$", "7", "5", ".", " ", "A",
    "d", "d", "i", "t", "i", "o", "n", "a", "l", " ", "c", "h", "e", "c",
    "k", "e", "d", " ", "b", "a", "g", "s", " ", "a", "r", "e", " ", "$",
    "3", "5", " ", "e", "a", "c", "h", "." >>

FAQ_BAG ==
  <<"Y", "o", "u", " ", "a", "r", "e", " ", "a", "l", "l", "o", "w", "e",
    "d", " ", "t", "o", " ", "b", "r", "i", "n", "g", " ", "o", "n", "e",
    " ", "c", "a", "r", "r", "y", "-", "o", "n", " ", "b", "a", "g", " ",
    "(", "2", "2", "x", "1", "4", "x", "9", " ", "i", "n", "c", "h", "e",
    "s", ")", " ", "a", "n", "d", " ", "o", "n", "e", " ", "c", "h", "e",
    "c", "k", "e", "d", " ", "b", "a", "g", " ", "(", "u", "p", " ", "t",
    "o", " ", "5", "0", " ", "l", "b", "s", ")", " ", "f", "o", "r", " ",
    "f", "r", "e", "e", ".", " ", "O", "v", "e", "r", "w", "e", "i", "g",
    "h", "t", " ", "f", "e", "e", "s", " ", "a", "r", "e", " ", "$", "7",
    "5", "." >>

FAQ_SEAT ==
  <<"T", "h", "e", "r", "e", " ", "a", "r", "e", " ", "1", "2", "0", " ",
    "s", "e", "a", "t", "s", " ", "o", "n", " ", "t", "h", "e", " ", "p",
    "l", "a", "n", "e", ":", " ", "2", "2", " ", "b", "u", "s", "i", "n",
    "e", "s", "s", " ", "c", "l", "a", "s", "s", " ", "a", "n", "d", " ",
    "9", "8", " ", "e", "c", "o", "n", "o", "m", "y", " ", "s", "e", "a",
    "t", "s", ".", " ", "E", "x", "i", "t", " ", "r", "o", "w", "s", " ",
    "a", "r", "e", " ", "4", " ", "a", "n", "d", " ", "1", "6", ",", " ",
    "E", "c", "o", "n", "o", "m", "y", " ", "P", "l", "u", "s", " ", "i",
    "s", " ", "r", "o", "w", "s", " ", "5", "-", "8", "." >>

FAQ_WIFI ==
  <<"W", "e", " ", "h", "a", "v", "e", " ", "f", "r", "e", "e", " ", "w",
    "i", "f", "i", " ", "o", "n", " ", "t", "h", "e", " ", "p", "l", "a",
    "n", "e", ".", " ", "C", "o", "n", "n", "e", "c", "t", " ", "t", "o",
    " ", "'", "A", "i", "r", "l", "i", "n", "e", "-", "W", "i", "f", "i",
    "'", " ", "n", "e", "t", "w", "o", "r", "k", ".", " ", "N", "o", " ",
    "p", "a", "s", "s", "w", "o", "r", "d", " ", "r", "e", "q", "u", "i",
    "r", "e", "d", "." >>

FAQ_DEFAULT ==
  <<"I", "'", "m", " ", "h", "e", "r", "e", " ", "t", "o", " ", "h", "e",
    "l", "p", " ", "w", "i", "t", "h", " ", "a", "i", "r", "l", "i", "n",
    "e", "-", "r", "e", "l", "a", "t", "e", "d", " ", "q", "u", "e", "s",
    "t", "i", "o", "n", "s", ".", " ", "C", "o", "u", "l", "d", " ", "y",
    "o", "u", " ", "p", "l", "e", "a", "s", "e", " ", "b", "e", " ", "m",
    "o", "r", "e", " ", "s", "p", "e", "c", "i", "f", "i", "c", " ", "a",
    "b", "o", "u", "t", " ", "w", "h", "a", "t", " ", "y", "o", "u", "'",
    "d", " ", "l", "i", "k", "e", " ", "t", "o", " ", "k", "n", "o", "w", "?" >>

\* faq_lookup_tool(question)
faq_lookup_tool(question) ==
  LET q == toLowerCase(question) IN
  IF includes(q, K_bag) \/ includes(q, K_baggage) \/ includes(q, K_luggage)
  THEN IF includes(q, K_fee) \/ includes(q, K_cost) \/ includes(q, K_charge)
       THEN FAQ_BAG_FEE
       ELSE FAQ_BAG
  ELSE IF includes(q, K_seat) \/ includes(q, K_plane) THEN FAQ_SEAT
  ELSE IF includes(q, K_wifi) \/ includes(q, K_internet) THEN FAQ_WIFI
  ELSE FAQ_DEFAULT

\* the reply of agent_respond's catch block
AGENT_APOLOGY ==
  <<"I", " ", "a", "p", "o", "l", "o", "g", "i", "z", "e", ",", " ", "b",
    "u", "t", " ", "I", "'", "m", " ", "h", "a", "v", "i", "n", "g", " ",
    "t", "r", "o", "u", "b", "l", "e", " ", "p", "r", "o", "c", "e", "s",
    "s", "i", "n", "g", " ", "y", "o", "u", "r", " ", "r", "e", "q", "u",
    "e", "s", "t", " ", "r", "i", "g", "h", "t", " ", "n", "o", "w", ".",
    " ", "P", "l", "e", "a", "s", "e", " ", "t", "r", "y", " ", "a", "g",
    "a", "i", "n", " ", "l", "a", "t", "e", "r", "." >>

\* the texts the language model answers with: a plain answer, two that admit
\* insufficient knowledge, and one with time-sensitive wording but no admission
D_fixtures ==
  <<"C", "h", "e", "l", "s", "e", "a", " ", "p", "l", "a", "y", " ", "A",
    "r", "s", "e", "n", "a", "l", " ", "o", "n", " ", "S", "u", "n", "d",
    "a", "y", "." >>
D_no_information ==
  <<"I", " ", "d", "o", "n", "'", "t", " ", "h", "a", "v", "e", " ", "i",
    "n", "f", "o", "r", "m", "a", "t", "i", "o", "n", " ", "a", "b", "o",
    "u", "t", " ", "f", "u", "t", "u", "r", "e", " ", "f", "i", "x", "t",
    "u", "r", "e", "s", "." >>
D_cutoff ==
  <<"A", "s", " ", "o", "f", " ", "m", "y", " ", "k", "n", "o", "w", "l",
    "e", "d", "g", "e", " ", "c", "u", "t", "o", "f", "f", " ", "t", "h",
    "e", " ", "m", "a", "n", "a", "g", "e", "r", " ", "h", "a", "d", " ",
    "n", "o", "t", " ", "b", "e", "e", "n", " ", "r", "e", "p", "l", "a",
    "c", "e", "d", "." >>
D_latest ==
  <<"T", "h", "e", " ", "l", "a", "t", "e", "s", "t", " ", "r", "e", "s",
    "u", "l", "t", " ", "i", "n", " ", "2", "0", "2", "5", " ", "w", "a",
    "s", " ", "a", " ", "d", "r", "a", "w", "." >>

\* a text the language model may produce, with whether it admits that the
\* model's knowledge is insufficient
ModelTexts ==
  { [text |-> D_fixtures, admits |-> FALSE],
    [text |-> D_no_information, admits |-> TRUE],
    [text |-> D_cutoff, admits |-> TRUE],
    [text |-> D_latest, admits |-> FALSE] }

\* how model.generateContent and response.text() end: a text, a rejection of
\* the call, the transport giving up on a silent upstream, or text() throwing
ModelOutcomes == { "text", "rejects", "timeout", "text_throws" }

K_latest == << "l", "a", "t", "e", "s", "t" >>
K_recent == << "r", "e", "c", "e", "n", "t" >>
K_2025 == << "2", "0", "2", "5" >>

\* words the messages to an agent are made of: the tool's keywords, in two
\* cases, time-sensitive words, and a word that matches nothing
AgentVocabulary ==
  { K_bag, K_fee, << "S", "e", "a", "t" >>, K_wifi, K_latest, K_2025,
    K_hello }

\* the user messages agents are asked
AgentMessages ==
  { JoinWords(ws) :
      ws \in UNION { [1..n -> AgentVocabulary] : n \in 0..MaxAgentWords } }

NoAgentCall ==
  [pc |-> "idle", agentName |-> "none", userMessage |-> <<>>, key |-> FALSE,
   llm |-> "not_called", reply |-> <<>>, admits |-> FALSE]

\* agent_respond whose failures after generateContent escape the try block
agent_respond_resume_Propagates(call, outcome, draft) ==
  IF outcome = "text"
  THEN [call EXCEPT !.pc = "returned", !.llm = outcome,
                    !.reply = draft.text, !.admits = draft.admits]
  ELSE IF outcome = "text_throws"
  THEN [call EXCEPT !.pc = "rejected", !.llm = outcome]
  ELSE [call EXCEPT !.pc = "returned", !.llm = outcome,
                    !.reply = AGENT_APOLOGY]

\* agent_respond(agentName, userMessage) up to its await of generateContent:
\* the FAQ agent returns a matching tool answer; every other call asks the
\* model, with whatever key genai was constructed with
agent_respond(agentName, userMessage, key) ==
  LET toolAnswer == faq_lookup_tool(userMessage)
      call == [NoAgentCall EXCEPT !.agentName = agentName,
                                  !.userMessage = userMessage, !.key = key]
  IN IF agentName = FAQAgent /\ toolAnswer # FAQ_DEFAULT
     THEN [call EXCEPT !.pc = "returned", !.reply = toolAnswer]
     ELSE [call EXCEPT !.pc = "awaiting", !.llm = "pending"]

\* agent_respond from the settling of generateContent on: the text of the
\* response, or the apology of the catch block
agent_respond_resume(call, outcome, draft) ==
  IF outcome = "text"
  THEN [call EXCEPT !.pc = "returned", !.llm = outcome,
                    !.reply = draft.text, !.admits = draft.admits]
  ELSE [call EXCEPT !.pc = "returned", !.llm = outcome,
                    !.reply = AGENT_APOLOGY]

(***************************************************************************)
(* The grounding engine of the backend, over an agent's draft reply.       *)
(***************************************************************************)
\* the phrases that admit insufficient knowledge
ADMISSION_PATTERNS ==
  { << "i", " ", "d", "o", "n", "'", "t", " ", "h", "a", "v", "e", " ",
       "i", "n", "f", "o", "r", "m", "a", "t", "i", "o", "n", " ",
       "a", "b", "o", "u", "t" >>,
    << "a", "s", " ", "o", "f", " ", "m", "y", " ", "k", "n", "o", "w",
       "l", "e", "d", "g", "e", " ", "c", "u", "t", "o", "f", "f" >> }

\* the words the retired heuristic looked for in the user's question
TIME_SENSITIVE_TERMS == { K_latest, K_recent, K_2025 }

\* the need check that still looks at the user's question
NeedsGrounding_TimeSensitive(draftReply, userText) ==
  \/ \E p \in ADMISSION_PATTERNS : includes(toLowerCase(draftReply), p)
  \/ \E w \in TIME_SENSITIVE_TERMS : includes(toLowerCase(userText), w)

\* phase A of ground(draftReply, conversationContext): the draft contains
\* one of the admission patterns
NeedsGrounding(draftReply, userText) ==
  \E p \in ADMISSION_PATTERNS : includes(toLowerCase(draftReply), p)

NoGrounding == [decided |-> FALSE, triggered |-> FALSE]

AgentInit ==
  /\ agentCall = NoAgentCall
  /\ grounding = NoGrounding

\* a turn reaches its agent: agent_respond(agentName, userMessage) is called
AgentRespond(agentName, userMessage) ==
  /\ agentCall.pc = "idle"
  /\ agentCall' = agent_respond(agentName, userMessage, apiKey)
  /\ UNCHANGED << grounding, serverVars, pageVars, routeVars >>

\* the model call of agent_respond settles. A call made without a key is
\* rejected by the upstream.
GenerateContentSettles(outcome, draft) ==
  /\ agentCall.pc = "awaiting"
  /\ ~agentCall.key => outcome = "rejects"
  /\ agentCall' = agent_respond_resume(agentCall, outcome, draft)
  /\ UNCHANGED << grounding, serverVars, pageVars, routeVars >>

\* the grounding engine inspects the draft reply
Ground ==
  /\ agentCall.pc = "returned"
  /\ ~grounding.decided
  /\ grounding' =
       [decided |-> TRUE,
        triggered |-> NeedsGrounding(agentCall.reply, agentCall.userMessage)]
  /\ UNCHANGED << agentCall, serverVars, pageVars, routeVars >>

\* the turn ends: the reply is handed on
AgentTurnEnds ==
  /\ agentCall.pc = "returned"
  /\ grounding.decided
  /\ agentCall' = NoAgentCall
  /\ grounding' = NoGrounding
  /\ UNCHANGED << serverVars, pageVars, routeVars >>

(***************************************************************************)
(* Specifications.                                                         *)
(***************************************************************************)
Init ==
  /\ ServerInit
  /\ PageInit
  /\ RouteInit
  /\ AgentInit

\* the handlers under the requests of a client
Next ==
  \/ \E d \in { 1, FETCH_TIMEOUT_MS } : Tick(d)
  \/ \E i \in Clients, h \in Handlers, b \in PostedBodies : Post(i, h, b)
  \/ \E i \in Slots : Deliver(i)
  \/ \E i \in Slots : ChatReceive(i)
  \/ \E i \in Slots, r \in FetchResults : FetchSettles(i, r)
  \/ \E i \in Slots : FetchTimesOut(i)
  \/ \E i \in Slots : SimpleReceive(i)
  \/ \E i \in Slots : EchoHandle(i)

Spec == Init /\ [][Next]_vars

PageSpecInit ==
  /\ nodeEnv \in { "development", "production" }
  /\ apiKey = TRUE
  /\ now = 1
  /\ reqs = [i \in PageCalls |-> FreeSlot]
  /\ backendStore = {}
  /\ PageInit
  /\ RouteInit
  /\ AgentInit

\* the page against the /chat endpoint
PageNext ==
  \/ \E d \in { 1, FETCH_TIMEOUT_MS } : Tick(d)
  \/ PageMount
  \/ \E c \in PageContents : HandleSendMessage(c)
  \/ \E i \in Slots : ChatReceive(i)
  \/ \E i \in Slots, r \in FetchResults : FetchSettles(i, r)
  \/ \E i \in Slots : FetchTimesOut(i)
  \/ \E i \in Slots, r \in { "ok", "not_ok", "throws" } : BackendAnswers(i, r)
  \/ \E r \in PageResults : BootResumes(r)
  \/ \E i \in Slots, r \in PageResults : SendResumes(i, r)

PageSpec == PageSpecInit /\ [][PageNext]_vars

RouteInitAll ==
  /\ nodeEnv = "production"
  /\ apiKey = TRUE
  /\ now = 1
  /\ reqs = [i \in Clients |-> FreeSlot]
  /\ backendStore = {}
  /\ PageInit
  /\ RouteInit
  /\ AgentInit

\* the router under arbitrary messages
RouteNext ==
  \E m \in RouteMessages : Route(m)

RouteSpec == RouteInitAll /\ [][RouteNext]_vars

\* two clients, to have two requests in flight at once
TwoClients == { "first", "second" }

\* the bodies of requests that start or continue a conversation
TurnBodies ==
  { ObjectBody(Str(K_hello), c) : c \in PostedIds }

IdSpecInit ==
  /\ nodeEnv \in { "development", "production" }
  /\ apiKey \in BOOLEAN
  /\ now = 1
  /\ reqs = [i \in TwoClients |-> FreeSlot]
  /\ backendStore = {}
  /\ PageInit
  /\ RouteInit
  /\ AgentInit

\* the handlers under two clients that post turns
IdNext ==
  \/ \E d \in { 1, FETCH_TIMEOUT_MS } : Tick(d)
  \/ \E i \in Slots, h \in Handlers, b \in TurnBodies : Post(i, h, b)
  \/ \E i \in Slots : Deliver(i)
  \/ \E i \in Slots : ChatReceive(i)
  \/ \E i \in Slots, r \in FetchResults : FetchSettles(i, r)
  \/ \E i \in Slots : FetchTimesOut(i)
  \/ \E i \in Slots : SimpleReceive(i)
  \/ \E i \in Slots : EchoHandle(i)

IdSpec == IdSpecInit /\ [][IdNext]_vars

\* longest message that asks for a fallback, in words
MaxTopicWords == 2

\* words of the messages that reach the fallback: the topic keys, in several
\* cases, the name of the default entry, and a word that matches nothing
TopicVocabulary ==
  { K_premier_league, << "C", "h", "a", "m", "p", "i", "o", "n", "s", "h", "i", "p" >>,
    << "B", "O", "X", "I", "N", "G" >>, K_transfer,
    << "d", "e", "f", "a", "u", "l", "t" >>, K_hello }

TopicMessages ==
  { JoinWords(ws) :
      ws \in UNION { [1..n -> TopicVocabulary] : n \in 1..MaxTopicWords } }

TopicBodies ==
  { ObjectBody(Str(m), c) : m \in TopicMessages, c \in PostedIds }

FallbackSpecInit ==
  /\ nodeEnv = "production"
  /\ apiKey = TRUE
  /\ now = 1
  /\ reqs = [i \in Clients |-> FreeSlot]
  /\ backendStore = {}
  /\ PageInit
  /\ RouteInit
  /\ AgentInit

\* the /api/chat handler under messages that name fallback topics, with a
\* backend that fails or stays silent
FallbackNext ==
  \/ Tick(FETCH_TIMEOUT_MS)
  \/ \E i \in Slots, b \in TopicBodies : Post(i, "chat", b)
  \/ \E i \in Slots : Deliver(i)
  \/ \E i \in Slots : ChatReceive(i)
  \/ \E i \in Slots, r \in FetchResults \ { "ok" } : FetchSettles(i, r)
  \/ \E i \in Slots : FetchTimesOut(i)

FallbackSpec == FallbackSpecInit /\ [][FallbackNext]_vars

AgentSpecInit ==
  /\ nodeEnv = "production"
  /\ apiKey \in BOOLEAN
  /\ now = 1
  /\ reqs = [i \in Clients |-> FreeSlot]
  /\ backendStore = {}
  /\ PageInit
  /\ RouteInit
  /\ AgentInit

\* the agents' response step under arbitrary agents, messages and model
\* outcomes
AgentNext ==
  \/ \E a \in AgentNames, m \in AgentMessages : AgentRespond(a, m)
  \/ \E o \in ModelOutcomes, t \in ModelTexts : GenerateContentSettles(o, t)
  \/ Ground
  \/ AgentTurnEnds

AgentSpec == AgentSpecInit /\ [][AgentNext]_vars

(***************************************************************************)
(* Properties of the handlers.                                             *)
(***************************************************************************)
\* the fields of a chat response
ChatFields ==
  { "conversation_id", "current_agent", "context", "events", "agents",
    "guardrails", "messages" }

\* a successful response that carries every field of a chat response
WellFormedChat(response) ==
  /\ response.status = 200
  /\ ChatFields \subseteq DOMAIN response.body

\* the conversation_id names a conversation some store holds
ConversationExists(conversation_id) ==
  /\ conversation_id.t = "string"
  /\ conversation_id.s \in conversations \cup backendStore

\* the requests that have been answered
Responded == { i \in Slots : reqs[i].pc = "responded" }

\* C1: a POST /chat with an empty message and no conversation_id is the boot
\* call: it is answered with a well-formed chat response that carries a new
\* conversation id and no user turn, not rejected as an invalid message.
C1_BootCallAccepted ==
  \A i \in Responded :
    ( /\ reqs[i].handler = "chat"
      /\ reqs[i].body.kind = "object"
      /\ reqs[i].body.message = Str(<<>>)
      /\ ~Truthy(reqs[i].body.conversation_id) )
    => /\ WellFormedChat(reqs[i].response)
       /\ Truthy(reqs[i].response.body.conversation_id)
       /\ \A k \in 1..Len(reqs[i].response.body.messages) :
            reqs[i].response.body.messages[k].agent # "user"

\* the message of a request is missing, not a string, or too long
Malformed(message) ==
  \/ message.t # "string"
  \/ Len(message.s) > MAX_MESSAGE_LENGTH

\* C2: a POST /chat whose message is missing, not a string or longer than
\* 1000 characters is rejected before any backend call: its handler never
\* fetches, and answers with a 400 error.
C2_MalformedRejectedBeforeFetch ==
  \A i \in Slots :
    ( /\ reqs[i].handler = "chat"
      /\ reqs[i].body.kind = "object"
      /\ Malformed(reqs[i].body.message) )
    => /\ reqs[i].pc # "fetching"
       /\ reqs[i].fetch = NoFetch
       /\ reqs[i].pc = "responded" =>
            /\ reqs[i].response.status = 400
            /\ DOMAIN reqs[i].response.body = { "error" }

\* a too-long message has been rejected
C2_Witness ==
  \E i \in Responded :
    /\ reqs[i].handler = "chat"
    /\ reqs[i].body.message.t = "string"
    /\ Len(reqs[i].body.message.s) > MAX_MESSAGE_LENGTH
    /\ reqs[i].response.status = 400

\* the ways the backend call of a handler fails
FetchFailures == { "not_ok", "throws", "bad_json", "timeout" }

\* C3: when the backend call of a handler throws, times out or answers with
\* a non-OK status, the handler still answers with a successful, well-formed
\* chat response that carries a reply.
C3_UpstreamFailureDegrades ==
  \A i \in Responded :
    reqs[i].fetch.result \in FetchFailures
    => /\ WellFormedChat(reqs[i].response)
       /\ Len(reqs[i].response.body.messages) > 0

\* a backend call answered non-OK, and the handler has responded
C3_Witness ==
  \E i \in Responded :
    /\ reqs[i].handler = "chat"
    /\ reqs[i].fetch.result = "not_ok"
    /\ reqs[i].response.status = 200

\* C4: a POST /chat is answered with a well-formed chat response unless it
\* names a nonexistent conversation or an internal fault occurs (here: the
\* body cannot be read); nothing else produces an error response.
C4_OnlyUnknownConversationFails ==
  \A i \in Responded :
    ~WellFormedChat(reqs[i].response)
    => \/ reqs[i].body.kind # "object"
       \/ /\ Truthy(reqs[i].body.conversation_id)
          /\ ~ConversationExists(reqs[i].body.conversation_id)

\* C5: a request that supplies a conversation id which names no existing
\* conversation is not answered with a chat response that adopts that id.
C5_UnknownConversationRejected ==
  \A i \in Responded :
    ( /\ reqs[i].body.kind = "object"
      /\ Truthy(reqs[i].body.conversation_id)
      /\ ~ConversationExists(reqs[i].body.conversation_id) )
    => ~( /\ WellFormedChat(reqs[i].response)
          /\ reqs[i].response.body.conversation_id
               = reqs[i].body.conversation_id )

\* C10: every backend call a handler awaits is guarded by a timeout, so the
\* request is answered even if the backend never does.
C10_EveryFetchHasTimeout ==
  \A i \in Slots :
    reqs[i].pc = "fetching" => reqs[i].fetch.signal

(***************************************************************************)
(* Properties of the router.                                               *)
(***************************************************************************)
\* the topic rules of the triage agent, in the order they are tried
TopicRules ==
  << [keys |-> { K_seat }, target |-> SeatBookingAgent],
     [keys |-> { K_status, K_flight }, target |-> FlightStatusAgent],
     [keys |-> { K_cancel }, target |-> CancellationAgent],
     [keys |-> { K_faq, K_question }, target |-> FAQAgent] >>

\* the rules a message matches
MatchingRules(m) ==
  { r \in 1..Len(TopicRules) :
      \E k \in TopicRules[r].keys : includes(toLowerCase(m), k) }

\* the target of the first rule m matches; none is the answer when no rule does
FirstMatch(m, none) ==
  IF MatchingRules(m) = {} THEN none
  ELSE TopicRules[CHOOSE r \in MatchingRules(m) :
                    \A q \in MatchingRules(m) : r <= q].target

\* C6: routed from the triage agent, a message goes to the target of the
\* first topic rule it matches, and when it matches none the current agent
\* remains the triage agent.
C6_FirstMatchOrStayOnTriage ==
  routeCall.currentAgent = TriageAgent
  => routeAgent = FirstMatch(routeCall.userMessage, TriageAgent)

\* C7: every change of the current agent goes to the triage agent or to an
\* agent in the previous agent's declared handoff set, a specialist never
\* hands off to another specialist, and the current agent is always a
\* registered agent.
C7_HandoffsDeclared ==
  /\ routeAgent \in AgentNames
  /\ routeAgent # routeCall.currentAgent /\ routeCall # NoCall
     => /\ \/ routeAgent = TriageAgent
           \/ routeAgent \in DeclaredHandoffs(routeCall.currentAgent)
        /\ routeCall.currentAgent # TriageAgent => routeAgent = TriageAgent

\* a specialist has handed the conversation back to the triage agent, and
\* the message also named another specialist's topic
C7_Witness ==
  /\ routeCall.currentAgent = SeatBookingAgent
  /\ includes(toLowerCase(routeCall.userMessage), K_cancel)
  /\ includes(toLowerCase(routeCall.userMessage), K_triage)
  /\ routeAgent = TriageAgent

(***************************************************************************)
(* Properties of the page.                                                 *)
(***************************************************************************)
RECURSIVE SerialPage(_, _)
\* the page after the turns of ts run one after the other, each from its
\* start to the application of its response
SerialPage(p, ts) ==
  IF Len(ts) = 0 THEN p
  ELSE LET t == Head(ts) IN
       SerialPage(IF t.kind = "boot" THEN ApplyBoot(p, t.data, t.at)
                  ELSE ApplySend(StartSend(p, t.content), p.conversationId,
                                 t.data, t.at),
                  Tail(ts))

\* no call of the page is in flight and every send has applied a response
PageSettled ==
  /\ \A i \in Slots : reqs[i].pc = "free"
  /\ Cardinality({ k \in 1..Len(turns) : turns[k].kind = "send" }) = page.sent

\* every send carried the id of a conversation: the boot response had been
\* applied before the first send
SendsNameConversation ==
  \A k \in 1..Len(turns) :
    turns[k].kind = "send" => Truthy(turns[k].conversation_id)

\* C8: turns that target one conversation never interleave: once the sends
\* have all been answered, the current agent, context, message history and
\* event log are those of the turns run one after the other in the order
\* their responses were applied.
C8_TurnsSerialized ==
  PageSettled /\ SendsNameConversation
  => LET serial == SerialPage(PageInitState, turns) IN
     /\ page.messages = serial.messages
     /\ page.events = serial.events
     /\ page.currentAgent = serial.currentAgent
     /\ page.context = serial.context

IsPrefix(a, b) ==
  /\ Len(a) <= Len(b)
  /\ SubSeq(b, 1, Len(a)) = a

\* C9: the message history and the event log of the page are append-only:
\* every step leaves the previous lists as prefixes of the new ones.
C9_HistoryAppendOnly ==
  [][ /\ IsPrefix(page.messages, page'.messages)
      /\ IsPrefix(page.events, page'.events) ]_vars


(***************************************************************************)
(* Properties of the agents' response step.                                *)
(***************************************************************************)
\* C11: when the language-model key is absent, a chat request is still
\* answered with a well-formed chat response, no error and no crash, and no
\* upstream call is attempted without the key: neither the handler's fetch
\* nor an agent's model call.
C11_MissingCredentialDegrades ==
  /\ \A i \in Slots :
       ( /\ reqs[i].handler = "simple"
         /\ reqs[i].body.kind = "object"
         /\ reqs[i].pc \in { "fetching", "responded" }
         /\ ~apiKey )
       => /\ reqs[i].pc = "responded"
          /\ reqs[i].fetch = NoFetch
          /\ WellFormedChat(reqs[i].response)
  /\ agentCall.llm # "not_called" => agentCall.key

\* C12: a model call that fails or times out inside agent_respond ends in
\* the apology reply: the call never rejects, whatever the agent and the
\* message.
C12_AgentRespondNeverThrows ==
  /\ agentCall.pc \in { "idle", "awaiting", "returned" }
  /\ ( /\ agentCall.pc = "returned"
       /\ agentCall.llm \in { "rejects", "timeout", "text_throws" } )
     => agentCall.reply = AGENT_APOLOGY

\* a call whose response could not be read has returned the apology
C12_Witness ==
  /\ agentCall.pc = "returned"
  /\ agentCall.llm = "text_throws"
  /\ agentCall.agentName = FAQAgent
  /\ agentCall.reply = AGENT_APOLOGY

C14_ModelAnswersFirst ==
  agentCall.pc = "returned" => agentCall.llm # "not_called"

(***************************************************************************)
(* Properties of the responses and their conversation ids.                 *)
(***************************************************************************)
\* the names a response may give the triage agent
TriageNames == { "triage", "Triage", TriageAgent }

\* C15: a chat response to a request that supplied no conversation_id
\* carries a conversation id, names the triage agent as current_agent and
\* lists at least one agent; in every chat response current_agent is the
\* name of an entry of the response's agents list.
C15_FreshConversationShape ==
  \A i \in Responded :
    WellFormedChat(reqs[i].response)
    => LET body == reqs[i].response.body IN
       /\ \E k \in 1..Len(body.agents) :
            body.agents[k].name = body.current_agent
       /\ ~Truthy(reqs[i].body.conversation_id)
          => /\ Truthy(body.conversation_id)
             /\ body.current_agent \in TriageNames
             /\ Len(body.agents) > 0

\* the answered requests that supplied no conversation_id and got a chat
\* response
FreshAnswered ==
  { i \in Responded : /\ ~Truthy(reqs[i].body.conversation_id)
                      /\ WellFormedChat(reqs[i].response) }

\* C16: conversation ids are unique: two requests that supplied no
\* conversation_id, also when handled at once or at the same instant, are
\* given different ids, and a generated id is not one already in use by
\* another request.
C16_ConversationIdsUnique ==
  \A i \in FreshAnswered : \A j \in Slots \ { i } :
    /\ j \in FreshAnswered
       => reqs[i].response.body.conversation_id
            # reqs[j].response.body.conversation_id
    /\ reqs[j].pc # "free"
       => reqs[i].response.body.conversation_id
            # reqs[j].body.conversation_id

\* C17: once the page holds a conversation id, no step replaces it by
\* another and every request the page sends from then on carries it, under
\* every interleaving of the boot call and the user's sends.
C17_ConversationIdKept ==
  [][ Truthy(page.conversationId)
      => /\ page'.conversationId = page.conversationId
         /\ \A i \in Slots :
              (reqs[i].pc = "free" /\ reqs'[i].pc # "free")
              => reqs'[i].body.conversation_id = page.conversationId ]_vars

\* the topic keys in the order the claim declares them
TopicOrder == << K_premier_league, K_championship, K_boxing, K_transfer >>

\* the response FALLBACK_RESPONSES holds for a key
ResponseOf(key) ==
  (CHOOSE e \in { FALLBACK_RESPONSES[k] : k \in DOMAIN FALLBACK_RESPONSES } :
     e.key = key).response

\* the positions in TopicOrder of the keys the lower-cased message contains
TopicsIn(message) ==
  { k \in DOMAIN TopicOrder : includes(toLowerCase(message), TopicOrder[k]) }

\* the requests the /api/chat handler answered with its fallback
FellBack ==
  { i \in Responded : /\ reqs[i].handler = "chat"
                      /\ reqs[i].fetch.result \in FetchFailures }

\* C18: the fallback reply is the response of the first key, in declared
\* order, that the lower-cased message contains, and the default response
\* exactly when it contains none; the fallback response names "triage" as
\* current_agent and returns a supplied conversation_id unchanged.
C18_FallbackFirstDeclaredKey ==
  \A i \in FellBack :
    LET topics == TopicsIn(reqs[i].body.message.s)
        body == reqs[i].response.body
        first == CHOOSE k \in topics : \A l \in topics : k <= l
    IN /\ body.messages[1].content =
            IF topics = {} THEN FALLBACK_DEFAULT
            ELSE ResponseOf(TopicOrder[first])
       /\ (body.messages[1].content = FALLBACK_DEFAULT) <=> (topics = {})
       /\ body.current_agent = "triage"
       /\ Truthy(reqs[i].body.conversation_id)
          => body.conversation_id = reqs[i].body.conversation_id

\* a message that names boxing, in capitals, before the premier league was
\* answered with the premier league response under the id it supplied
C18_Witness ==
  \E i \in FellBack :
    /\ reqs[i].body.message.s
         = << "B", "O", "X", "I", "N", "G", " " >> \o K_premier_league
    /\ reqs[i].response.body.messages[1].content
         = ResponseOf(K_premier_league)
    /\ Truthy(reqs[i].body.conversation_id)
    /\ reqs[i].response.body.conversation_id = Str(K_unknown_id)

====
